---- MODULE Spec2Model ----
(***************************************************************************)
(* Maze construction of src/graphics.py: Maze.__init__ creates the cells,  *)
(* opens entrance and exit, carves the passages (__break_walls_r below     *)
(* 1000 cells, __break_walls_l otherwise), resets the visited flags,       *)
(* solves (_solve_r / _solve_l) and only then seeds the random source.     *)
(*                                                                         *)
(* Cells are addressed <<i, j>>, i the column (outer list), j the row.     *)
(* Pixel coordinates are x1 + i * cell_size_x and y1 + j * cell_size_y     *)
(* (lines 168-173); with positive cell sizes they order cells exactly as   *)
(* the indices do, so the model compares indices where draw_move compares  *)
(* coordinates.                                                            *)
(*                                                                         *)
(* The strategy test num_cols * num_rows < 1000 (lines 186 and 277) reads  *)
(* nothing but the dimensions, and neither strategy reads the threshold.   *)
(* The grids explored here are far below 1000 cells, so the outcome of the *)
(* test is the variable `large`, fixed when the Maze is constructed and    *)
(* the same for carving and solving: both strategies run on every grid.    *)
(***************************************************************************)
EXTENDS Integers, Sequences, FiniteSets, TLC

\* Largest num_cols / num_rows / seed the model constructs a Maze with.
MaxCols == 3
MaxRows == 3
MaxSeed == 1
\* How many Maze objects are constructed one after the other (SpecTwice).
MaxRuns == 2
\* How many times solve() is called on one Maze (SpecResolve).
MaxSolves == 2
\* Largest grid handed to solve() with walls of the caller's choice (SpecGiven).
GivenCols == 3
GivenRows == 2

\* seed: int | None = None
NoSeed == -1

Dirs == {"left", "right", "up", "down"}

VARIABLES
    num_cols, num_rows, \* Maze.num_cols, Maze.num_rows
    large,              \* outcome of the test num_cols * num_rows < 1000 negated
    win,                \* TRUE iff a Window was passed (Maze.__win is not None)
    seed,               \* Maze.__init__'s seed argument (NoSeed for None)
    cells,              \* Maze.__cells: <<i, j>> -> Cell fields
    phase,              \* position of Maze.__init__
    frames,             \* call stack of __break_walls_r / _solve_r
    stack,              \* local `stack` of __break_walls_l / _solve_l
    cur,                \* local (i, j) of __break_walls_l / _solve_l after pop
    pending,            \* rest of the `for pair in indexes_to_visit` loop
    lpc,                \* position inside one iteration of _solve_l's loop
    ret,                \* value returned by the last finished _solve_r call
    outcome,            \* which return statement ended the solve
    moves,              \* moves drawn red and not painted over in gray
    rng,                \* state of the module-level random source
    fault,              \* exception that ended the construction, if any
    incoming,           \* history: how many carves went into each cell
    resets,             \* history: runs of the reset loop of this Maze
    run,                \* number of the Maze being constructed
    first,              \* walls and moves of the first Maze constructed
    caller,             \* who called solve(): "init" (line 274) or "user"
    result,             \* what the last solve() call returned
    calls,              \* history: solve() calls on this Maze
    before,             \* outcome and moves of the solve() call before this
    entered             \* history: times the running solve entered each cell

vars == <<num_cols, num_rows, large, win, seed, cells, phase, frames, stack,
          cur, pending, lpc, ret, outcome, moves, rng, fault, incoming,
          resets, run, first, caller, result, calls, before, entered>>

\* The constructor arguments of one Maze object.
args == <<num_cols, num_rows, large, win, seed>>

\* The bookkeeping of the solve() calls.
solveHist == <<caller, result, calls, before>>

-----------------------------------------------------------------------------
\* Grid helpers

Idx == (0 .. num_cols - 1) \X (0 .. num_rows - 1)

Last == <<num_cols - 1, num_rows - 1>>

\* Cell.__init__: four walls, not visited, valid_dirs = {}
NewCell ==
    [has_left_wall |-> TRUE, has_right_wall |-> TRUE,
     has_top_wall |-> TRUE, has_bottom_wall |-> TRUE,
     visited |-> FALSE,
     valid_dirs |-> [d \in Dirs |-> "unset"]]

\* The elements of a four-element list whose guard holds, in list order.
Filter(cand, ok) ==
    LET F[k \in 0 .. 4] ==
            IF k = 0 THEN << >>
            ELSE IF ok[k] THEN Append(F[k - 1], cand[k]) ELSE F[k - 1]
    IN  F[4]

Neighbours(i, j) == << <<i - 1, j>>, <<i + 1, j>>, <<i, j - 1>>, <<i, j + 1>> >>

\* NeedToVisit with the fourth if block (the cell below) left out.
NeedToVisit_NoDown(cs, i, j) ==
    Filter(Neighbours(i, j),
           << i - 1 > 0 /\ ~cs[<<i - 1, j>>].visited,
              i + 1 < num_cols /\ ~cs[<<i + 1, j>>].visited,
              j - 1 > 0 /\ ~cs[<<i, j - 1>>].visited,
              FALSE >>)

\* need_to_visit of __break_walls_r: the lower bounds are strict (> 0).
NeedToVisit(cs, i, j) ==
    Filter(Neighbours(i, j),
           << i - 1 > 0 /\ ~cs[<<i - 1, j>>].visited,
              i + 1 < num_cols /\ ~cs[<<i + 1, j>>].visited,
              j - 1 > 0 /\ ~cs[<<i, j - 1>>].visited,
              j + 1 < num_rows /\ ~cs[<<i, j + 1>>].visited >>)

\* indexes_to_visit of __break_walls_l: the lower bounds are inclusive.
IndexesToVisit(cs, i, j) ==
    Filter(Neighbours(i, j),
           << i - 1 >= 0 /\ ~cs[<<i - 1, j>>].visited,
              i + 1 < num_cols /\ ~cs[<<i + 1, j>>].visited,
              j - 1 >= 0 /\ ~cs[<<i, j - 1>>].visited,
              j + 1 < num_rows /\ ~cs[<<i, j + 1>>].visited >>)

MarkVisited(cs, c) == [cs EXCEPT ![c].visited = TRUE]

\* BreakWallR whose second branch clears the neighbour's right wall, not
\* its left wall.
BreakWallR_WrongSide(cs, a, b) ==
    IF b[1] < a[1] THEN
        [cs EXCEPT ![a].has_left_wall = FALSE, ![b].has_right_wall = FALSE]
    ELSE IF b[1] > a[1] THEN
        [cs EXCEPT ![a].has_right_wall = FALSE, ![b].has_right_wall = FALSE]
    ELSE IF b[2] < a[2] THEN
        [cs EXCEPT ![a].has_top_wall = FALSE, ![b].has_bottom_wall = FALSE]
    ELSE IF b[2] > a[2] THEN
        [cs EXCEPT ![a].has_bottom_wall = FALSE, ![b].has_top_wall = FALSE]
    ELSE cs

\* The if/elif chain of __break_walls_r: clears the wall pair between a and b.
BreakWallR(cs, a, b) ==
    IF b[1] < a[1] THEN
        [cs EXCEPT ![a].has_left_wall = FALSE, ![b].has_right_wall = FALSE]
    ELSE IF b[1] > a[1] THEN
        [cs EXCEPT ![a].has_right_wall = FALSE, ![b].has_left_wall = FALSE]
    ELSE IF b[2] < a[2] THEN
        [cs EXCEPT ![a].has_top_wall = FALSE, ![b].has_bottom_wall = FALSE]
    ELSE IF b[2] > a[2] THEN
        [cs EXCEPT ![a].has_bottom_wall = FALSE, ![b].has_top_wall = FALSE]
    ELSE cs

\* The if/elif chain of __break_walls_l: the wall pair and both valid_dirs.
BreakWallL(cs, a, b) ==
    IF b[1] < a[1] THEN
        [cs EXCEPT ![a].has_left_wall = FALSE, ![b].has_right_wall = FALSE,
                   ![a].valid_dirs["left"] = "True",
                   ![b].valid_dirs["right"] = "True"]
    ELSE IF b[1] > a[1] THEN
        [cs EXCEPT ![a].has_right_wall = FALSE, ![b].has_left_wall = FALSE,
                   ![a].valid_dirs["right"] = "True",
                   ![b].valid_dirs["left"] = "True"]
    ELSE IF b[2] < a[2] THEN
        [cs EXCEPT ![a].has_top_wall = FALSE, ![b].has_bottom_wall = FALSE,
                   ![a].valid_dirs["up"] = "True",
                   ![b].valid_dirs["down"] = "True"]
    ELSE IF b[2] > a[2] THEN
        [cs EXCEPT ![a].has_bottom_wall = FALSE, ![b].has_top_wall = FALSE,
                   ![a].valid_dirs["down"] = "True",
                   ![b].valid_dirs["up"] = "True"]
    ELSE cs

\* PushVisited without line 226: the stacked cell is left unmarked.
PushVisited_Forgotten(cs, c) == cs

\* stack.append((i_index, j_index)); cells[i_index][j_index].visited = True
PushVisited(cs, c) == [cs EXCEPT ![c].visited = TRUE]

\* OpenEntranceAndExit without line 183: the exit stays closed.
OpenEntranceAndExit_NoExit(cs) ==
    [cs EXCEPT ![<<0, 0>>].has_top_wall = FALSE]

\* OpenEntranceAndExit clearing has_top_wall in both lines.
OpenEntranceAndExit_TopTwice(cs) ==
    LET a == [cs EXCEPT ![<<0, 0>>].has_top_wall = FALSE]
    IN  [a EXCEPT ![Last].has_top_wall = FALSE]

\* OpenEntranceAndExit clearing the last cell's right wall for the exit.
OpenEntranceAndExit_RightWall(cs) ==
    LET a == [cs EXCEPT ![<<0, 0>>].has_top_wall = FALSE]
    IN  [a EXCEPT ![Last].has_right_wall = FALSE]

\* Lines 182-183: the top wall of (0,0) and the bottom wall of the last cell.
OpenEntranceAndExit(cs) ==
    LET a == [cs EXCEPT ![<<0, 0>>].has_top_wall = FALSE]
    IN  [a EXCEPT ![Last].has_bottom_wall = FALSE]

\* ResetVisited whose outer loop starts at column 1.
ResetVisited_FromColumnOne(cs) ==
    [c \in DOMAIN cs |->
        IF c[1] >= 1 THEN [cs[c] EXCEPT !.visited = FALSE] ELSE cs[c]]

\* The loop of __reset_cells_visited.
ResetVisited(cs) == [c \in DOMAIN cs |-> [cs[c] EXCEPT !.visited = FALSE]]

\* HasCells with `or` in place of `and`.
HasCells_Or == num_cols > 0 \/ num_rows > 0

\* The guard of __create_cells before __break_entrance_and_exit.
HasCells == num_cols > 0 /\ num_rows > 0

-----------------------------------------------------------------------------
\* The random source.  Unseeded, its state is whatever earlier draws left:
\* any outcome is possible.  After random.seed(s) the k-th draw is a fixed
\* function of s and k.

\* The index (1 .. n) the k-th draw after random.seed(s) yields among n.
Draw(s, k, n) == ((s * 5 + k * 3 + s * k + 1) % n) + 1

\* random.choice(need_to_visit): the indices it may return.
ChoiceOf(r, n) == IF r.seeded THEN {Draw(r.seed, r.pos, n)} ELSE 1 .. n

AfterDraws(r, k) == IF r.seeded THEN [r EXCEPT !.pos = @ + k] ELSE r

Swap(x, a, b) == [x EXCEPT ![a] = x[b], ![b] = x[a]]

\* random.shuffle(x): for i = len-1 down to 1, j = randbelow(i+1), swap
\* x[i], x[j] (positions counted from 0); js[i] is the j drawn for i.
ShuffleWith(x, js) ==
    LET S[i \in 0 .. Len(x)] ==
            \* S[i]: the list after the steps for positions Len(x)-1 .. i
            IF i >= Len(x) THEN x
            ELSE IF i = 0 THEN S[1]
            ELSE Swap(S[i + 1], i + 1, js[i] + 1)
    IN  S[0]

\* The lists random.shuffle(x) may leave.
Shuffles(r, x) ==
    IF Len(x) <= 1 THEN {x}
    ELSE IF r.seeded THEN
        {ShuffleWith(x, [i \in 1 .. Len(x) - 1 |->
                            Draw(r.seed, r.pos + (Len(x) - 1 - i), i + 1) - 1])}
    ELSE {ShuffleWith(x, js) :
             js \in {f \in [1 .. Len(x) - 1 -> 0 .. Len(x) - 1] :
                        \A i \in 1 .. Len(x) - 1 : f[i] <= i}}

ShuffleDraws(x) == IF Len(x) <= 1 THEN 0 ELSE Len(x) - 1

\* if seed: random.seed(seed)  -- None and 0 are both falsy.
SeedRandom(r, s) ==
    IF s # NoSeed /\ s # 0 THEN [seeded |-> TRUE, seed |-> s, pos |-> 0] ELSE r

-----------------------------------------------------------------------------
\* Initial state: the arguments of Maze(...), before __init__ runs.

Init ==
    /\ num_cols \in -1 .. MaxCols
    /\ num_rows \in -1 .. MaxRows
    /\ large \in BOOLEAN
    /\ win \in BOOLEAN
    /\ seed \in {NoSeed} \cup (0 .. MaxSeed)
    /\ cells = << >>
    /\ phase = "create"
    /\ frames = << >>
    /\ stack = << >>
    /\ cur = <<0, 0>>
    /\ pending = << >>
    /\ lpc = "pop"
    /\ ret = "none"
    /\ outcome = "none"
    /\ moves = {}
    /\ rng = [seeded |-> FALSE, seed |-> NoSeed, pos |-> 0]
    /\ fault = "none"
    /\ incoming = << >>
    /\ resets = 0
    /\ run = 1
    /\ first = [set |-> FALSE, cells |-> << >>, moves |-> {}]
    /\ caller = "init"
    /\ result = "pending"
    /\ calls = 0
    /\ before = [set |-> FALSE, outcome |-> "none", moves |-> {}]
    /\ entered = << >>

-----------------------------------------------------------------------------
\* Maze.__init__ up to the end of carving

Frame(c, pc) == [cell |-> c, pc |-> pc, waiting |-> FALSE]

Top == frames[Len(frames)]

Pop(s) == SubSeq(s, 1, Len(s) - 1)

Raise(e) ==
    /\ phase' = "fault"
    /\ fault' = e

\* __create_cells, lines 158-164: every cell is created (and drawn).
CreateCells ==
    /\ phase = "create"
    /\ cells' = [c \in Idx |-> NewCell]
    /\ incoming' = [c \in Idx |-> 0]
    /\ phase' = IF HasCells THEN "entrance" ELSE "seed"
    /\ entered' = [c \in Idx |-> 0]
    /\ UNCHANGED <<args, solveHist, frames, stack, cur, pending, lpc, ret, outcome,
                   moves, rng, fault, resets, run, first>>

\* __break_entrance_and_exit, lines 182-188: both walls are opened, then the
\* carving call is entered (line 232 marks (0,0); line 192 stacks it).
BreakEntranceAndExit ==
    /\ phase = "entrance"
    /\ IF <<0, 0>> \notin DOMAIN cells
       THEN /\ Raise("IndexError")
            /\ UNCHANGED <<cells, frames, stack>>
       ELSE /\ phase' = "carve"
            /\ fault' = fault
            /\ IF ~large
               THEN /\ cells' = MarkVisited(OpenEntranceAndExit(cells), <<0, 0>>)
                    /\ frames' = << Frame(<<0, 0>>, "carve") >>
                    /\ stack' = stack
               ELSE /\ cells' = OpenEntranceAndExit(cells)
                    /\ stack' = << <<0, 0>> >>
                    /\ frames' = frames
    /\ UNCHANGED <<args, solveHist, entered, cur, pending, lpc, ret, outcome, moves, rng,
                   incoming, resets, run, first>>

\* __break_walls_r, lines 253-268: one candidate is drawn, the wall pair is
\* cleared and the recursive call is entered (line 232 marks the cell).
BreakWallsR_Carve ==
    /\ phase = "carve"
    /\ ~large
    /\ frames # << >>
    /\ LET c == Top.cell
           ntv == NeedToVisit(cells, c[1], c[2])
       IN  /\ ntv # << >>
           /\ \E k \in ChoiceOf(rng, Len(ntv)) :
                /\ cells' = MarkVisited(BreakWallR(cells, c, ntv[k]), ntv[k])
                /\ frames' = Append(frames, Frame(ntv[k], "carve"))
                /\ incoming' = [incoming EXCEPT ![ntv[k]] = @ + 1]
           /\ rng' = AfterDraws(rng, 1)
    /\ UNCHANGED <<args, solveHist, entered, phase, stack, cur, pending, lpc, ret, outcome,
                   moves, fault, resets, run, first>>

\* __break_walls_r, lines 248-250: no candidate is left, the call returns.
BreakWallsR_Return ==
    /\ phase = "carve"
    /\ ~large
    /\ frames # << >>
    /\ NeedToVisit(cells, Top.cell[1], Top.cell[2]) = << >>
    /\ frames' = Pop(frames)
    /\ phase' = IF Len(frames) = 1 THEN "reset" ELSE phase
    /\ UNCHANGED <<args, solveHist, entered, cells, stack, cur, pending, lpc, ret, outcome,
                   moves, rng, fault, incoming, resets, run, first>>

\* __break_walls_l, lines 194-205: a cell is popped and marked, its
\* unvisited neighbours are listed and shuffled.
BreakWallsL_Pop ==
    /\ phase = "carve"
    /\ large
    /\ pending = << >>
    /\ stack # << >>
    /\ LET c == stack[Len(stack)]
           marked == MarkVisited(cells, c)
           itv == IndexesToVisit(marked, c[1], c[2])
       IN  /\ cur' = c
           /\ cells' = marked
           /\ pending' \in Shuffles(rng, itv)
           /\ rng' = AfterDraws(rng, ShuffleDraws(itv))
    /\ stack' = Pop(stack)
    /\ UNCHANGED <<args, solveHist, entered, phase, frames, lpc, ret, outcome, moves, fault,
                   incoming, resets, run, first>>

\* __break_walls_l, lines 207-228: one pass of the for loop.
BreakWallsL_Carve ==
    /\ phase = "carve"
    /\ large
    /\ pending # << >>
    /\ LET pair == Head(pending)
       IN  /\ cells' = PushVisited(BreakWallL(cells, cur, pair), pair)
           /\ stack' = Append(stack, pair)
           /\ incoming' = [incoming EXCEPT ![pair] = @ + 1]
    /\ pending' = Tail(pending)
    /\ UNCHANGED <<args, solveHist, entered, phase, frames, cur, lpc, ret, outcome, moves, rng,
                   fault, resets, run, first>>

\* __break_walls_l, line 193: the stack is empty, the while loop ends.
BreakWallsL_Done ==
    /\ phase = "carve"
    /\ large
    /\ pending = << >>
    /\ stack = << >>
    /\ phase' = "reset"
    /\ UNCHANGED <<args, solveHist, entered, cells, frames, stack, cur, pending, lpc, ret,
                   outcome, moves, rng, fault, incoming, resets, run, first>>

\* solve(), lines 277-278, is entered by `who`: _solve_r(0, 0) is called, or
\* _solve_l(0, 0) is called and stacks (0,0) (line 323).
EnterSolve(who) ==
    /\ phase' = "solve"
    /\ caller' = who
    /\ calls' = calls + 1
    /\ result' = "pending"
    /\ ret' = "none"
    /\ IF ~large
       THEN /\ frames' = << Frame(<<0, 0>>, "enter") >>
            /\ entered' = [c \in DOMAIN cells |-> 0]
            /\ UNCHANGED <<stack, lpc>>
       ELSE /\ stack' = << <<0, 0>> >>
            /\ lpc' = "pop"
            /\ entered' = [c \in DOMAIN cells |->
                              IF c = <<0, 0>> THEN 1 ELSE 0]
            /\ frames' = frames

\* __reset_cells_visited, lines 271-274: every flag is cleared, then solve()
\* is called.
ResetCellsVisited ==
    /\ phase = "reset"
    /\ cells' = ResetVisited(cells)
    /\ resets' = resets + 1
    /\ EnterSolve("init")
    /\ UNCHANGED <<args, before, cur, pending, outcome, moves, rng, fault,
                   incoming, run, first>>

\* Maze.__init__, lines 154-155, after __create_cells has returned.
SeedAndFinish ==
    /\ phase = "seed"
    /\ rng' = SeedRandom(rng, seed)
    /\ phase' = "done"
    /\ UNCHANGED <<args, solveHist, entered, cells, frames, stack, cur, pending, lpc, ret,
                   outcome, moves, fault, incoming, resets, run, first>>

-----------------------------------------------------------------------------
\* Solving

Toward(c, d) ==
    CASE d = "left"  -> <<c[1] - 1, c[2]>>
      [] d = "right" -> <<c[1] + 1, c[2]>>
      [] d = "up"    -> <<c[1], c[2] - 1>>
      [] d = "down"  -> <<c[1], c[2] + 1>>

Opposite(d) ==
    CASE d = "left"  -> "right"
      [] d = "right" -> "left"
      [] d = "up"    -> "down"
      [] d = "down"  -> "up"

HasWall(cs, c, d) ==
    CASE d = "left"  -> cs[c].has_left_wall
      [] d = "right" -> cs[c].has_right_wall
      [] d = "up"    -> cs[c].has_top_wall
      [] d = "down"  -> cs[c].has_bottom_wall

\* The order of the four if blocks of _solve_r and _solve_l.
NextDir(d) ==
    CASE d = "left"  -> "right"
      [] d = "right" -> "up"
      [] d = "up"    -> "down"
      [] d = "down"  -> "end"

\* IsExit comparing the indices themselves with the dimensions.
IsExit_OffByOne(c) == c[1] = num_cols /\ c[2] = num_rows

\* if i + 1 == self.num_cols and j + 1 == self.num_rows
IsExit(c) == c[1] + 1 = num_cols /\ c[2] + 1 = num_rows

\* The outer guards of _solve_r: lines 288, 296, 304, 312.
BoundR(c, d) ==
    CASE d = "left"  -> c[1] - 1 > 0
      [] d = "right" -> c[1] < num_cols
      [] d = "up"    -> c[2] - 1 > 0
      [] d = "down"  -> c[2] < num_rows

\* The outer guards of _solve_l: lines 330, 338, 346, 356.
BoundL(c, d) ==
    CASE d = "left"  -> c[1] - 1 >= 0
      [] d = "right" -> c[1] + 1 < num_cols
      [] d = "up"    -> c[2] - 1 >= 0
      [] d = "down"  -> c[2] + 1 < num_rows

\* Cell.draw_move(to_cell): the red line from a to b.
DrawMove(ms, a, b) == ms \cup {<<a, b>>}

\* Cell.draw_move(to_cell, True): the gray line over the move from a to b.
EraseMove(ms, a, b) == ms \ {<<a, b>>}

\* Cell.draw_move(to_cell, True), lines 137-144: the four coordinate tests.
UndoDirs(cs, a, b) ==
    LET s1 == IF a[1] > b[1]
              THEN [cs EXCEPT ![a].valid_dirs["left"] = "False",
                              ![b].valid_dirs["right"] = "False"]
              ELSE cs
        s2 == IF a[1] < b[1]
              THEN [s1 EXCEPT ![a].valid_dirs["right"] = "False",
                              ![b].valid_dirs["left"] = "False"]
              ELSE s1
        s3 == IF a[2] > b[2]
              THEN [s2 EXCEPT ![a].valid_dirs["up"] = "False",
                              ![b].valid_dirs["down"] = "False"]
              ELSE s2
    IN  IF a[2] < b[2]
        THEN [s3 EXCEPT ![a].valid_dirs["down"] = "False",
                        ![b].valid_dirs["up"] = "False"]
        ELSE s3

\* solve(), lines 276-278, has no return statement: whatever _solve_r or
\* _solve_l gave, the caller of solve() gets None.
SolveResult(v) == "None"

\* solve() returns to its caller: to Maze.__init__ by way of
\* __reset_cells_visited, or to the user's code.
SolveReturns(v) ==
    /\ result' = SolveResult(v)
    /\ phase' = IF caller = "init" THEN "seed" ELSE "done"

\* A _solve_r call returns v: its frame goes; the outermost call ends solve().
ReturnR(v) ==
    /\ frames' = Pop(frames)
    /\ ret' = v
    /\ IF Len(frames) = 1
       THEN /\ SolveReturns(v)
            /\ outcome' = IF v = "True" THEN "exit" ELSE "exhausted"
       ELSE UNCHANGED <<phase, outcome, result>>

\* _solve_r, lines 281-285: _animate, mark, exit test.
SolveR_Enter ==
    /\ phase = "solve"
    /\ ~large
    /\ frames # << >>
    /\ Top.pc = "enter"
    /\ IF ~win
       THEN /\ Raise("AttributeError")
            /\ UNCHANGED <<cells, frames, ret, outcome, result, entered>>
       ELSE /\ cells' = MarkVisited(cells, Top.cell)
            /\ entered' = [entered EXCEPT ![Top.cell] = @ + 1]
            /\ fault' = fault
            /\ IF IsExit(Top.cell)
               THEN ReturnR("True")
               ELSE /\ frames' = [frames EXCEPT ![Len(frames)].pc = "left"]
                    /\ UNCHANGED <<phase, ret, outcome, result>>
    /\ UNCHANGED <<args, caller, calls, before, stack, cur, pending, lpc,
                   moves, rng, incoming, resets, run, first>>

\* _solve_r, one of the four if blocks up to the recursive call: the move is
\* drawn and the call entered, or the block is skipped.
SolveR_Try ==
    /\ phase = "solve"
    /\ ~large
    /\ frames # << >>
    /\ Top.pc \in Dirs
    /\ ~Top.waiting
    /\ LET c == Top.cell
           d == Top.pc
           n == Toward(c, d)
       IN  IF BoundR(c, d) /\ ~HasWall(cells, c, d)
           THEN IF n \notin DOMAIN cells
                THEN /\ Raise("IndexError")
                     /\ UNCHANGED <<frames, moves, ret>>
                ELSE IF ~HasWall(cells, n, Opposite(d)) /\ ~cells[n].visited
                THEN /\ moves' = DrawMove(moves, c, n)
                     /\ frames' = Append(
                            [frames EXCEPT ![Len(frames)].waiting = TRUE],
                            Frame(n, "enter"))
                     /\ ret' = "none"
                     /\ UNCHANGED <<phase, fault>>
                ELSE /\ frames' = [frames EXCEPT ![Len(frames)].pc = NextDir(d)]
                     /\ UNCHANGED <<phase, fault, moves, ret>>
           ELSE /\ frames' = [frames EXCEPT ![Len(frames)].pc = NextDir(d)]
                /\ UNCHANGED <<phase, fault, moves, ret>>
    /\ UNCHANGED <<args, solveHist, entered, cells, stack, cur, pending, lpc,
                   outcome, rng, incoming, resets, run, first>>

\* _solve_r, the rest of an if block: the recursive call has returned; True
\* is passed up, after False the move is painted over (draw_move undo).
SolveR_Back ==
    /\ phase = "solve"
    /\ ~large
    /\ frames # << >>
    /\ Top.waiting
    /\ LET c == Top.cell
           d == Top.pc
           n == Toward(c, d)
       IN  IF ret = "True"
           THEN /\ ReturnR("True")
                /\ UNCHANGED <<cells, moves>>
           ELSE /\ moves' = EraseMove(moves, c, n)
                /\ cells' = UndoDirs(cells, c, n)
                /\ frames' = [frames EXCEPT ![Len(frames)].pc = NextDir(d),
                                            ![Len(frames)].waiting = FALSE]
                /\ ret' = "none"
                /\ UNCHANGED <<phase, outcome, result>>
    /\ UNCHANGED <<args, caller, calls, before, entered, stack, cur, pending,
                   lpc, rng, fault, incoming, resets, run, first>>

\* _solve_r, line 320: return False.
SolveR_Fail ==
    /\ phase = "solve"
    /\ ~large
    /\ frames # << >>
    /\ Top.pc = "end"
    /\ ReturnR("False")
    /\ UNCHANGED <<args, caller, calls, before, entered, cells, stack, cur,
                   pending, lpc, moves, rng, fault, incoming, resets, run,
                   first>>

\* _solve_l, lines 324-328: the loop test, the pop and the exit test.
SolveL_Pop ==
    /\ phase = "solve"
    /\ large
    /\ lpc = "pop"
    /\ IF stack = << >>
       THEN /\ outcome' = "exhausted"
            /\ SolveReturns("None")
            /\ UNCHANGED <<stack, cur, lpc>>
       ELSE /\ cur' = stack[Len(stack)]
            /\ stack' = Pop(stack)
            /\ IF IsExit(stack[Len(stack)])
               THEN /\ outcome' = "exit"
                    /\ SolveReturns("None")
                    /\ lpc' = lpc
               ELSE /\ lpc' = "left"
                    /\ UNCHANGED <<outcome, phase, result>>
    /\ UNCHANGED <<args, caller, calls, before, entered, cells, frames,
                   pending, ret, moves, rng, fault, incoming, resets, run,
                   first>>

\* _solve_l, one of the four if blocks: the neighbour is marked, the move
\* drawn, the neighbour stacked; the move is painted over only when the
\* cell's valid_dirs entry for the direction is false.
SolveL_Try ==
    /\ phase = "solve"
    /\ large
    /\ lpc \in Dirs
    /\ LET d == lpc
           n == Toward(cur, d)
           after == IF NextDir(d) = "end" THEN "pop" ELSE NextDir(d)
       IN  IF BoundL(cur, d) /\ ~HasWall(cells, cur, d) /\ ~cells[n].visited
           THEN IF ~win
                THEN /\ cells' = MarkVisited(cells, n)
                     /\ Raise("AttributeError")
                     /\ UNCHANGED <<stack, moves, lpc, entered>>
                ELSE IF cells[cur].valid_dirs[d] = "unset"
                THEN /\ cells' = MarkVisited(cells, n)
                     /\ moves' = DrawMove(moves, cur, n)
                     /\ stack' = Append(stack, n)
                     /\ entered' = [entered EXCEPT ![n] = @ + 1]
                     /\ Raise("KeyError")
                     /\ lpc' = lpc
                ELSE /\ stack' = Append(stack, n)
                     /\ entered' = [entered EXCEPT ![n] = @ + 1]
                     /\ lpc' = after
                     /\ UNCHANGED <<phase, fault>>
                     /\ IF cells[cur].valid_dirs[d] = "False"
                        THEN /\ moves' = EraseMove(DrawMove(moves, cur, n), cur, n)
                             /\ cells' = UndoDirs(MarkVisited(cells, n), cur, n)
                        ELSE /\ moves' = DrawMove(moves, cur, n)
                             /\ cells' = MarkVisited(cells, n)
           ELSE /\ lpc' = after
                /\ UNCHANGED <<cells, stack, moves, phase, fault, entered>>
    /\ UNCHANGED <<args, solveHist, frames, cur, pending, ret, outcome, rng,
                   incoming, resets, run, first>>

\* The user calls solve() again on the constructed Maze (it has cells).  The
\* canvas keeps its lines and the cells keep their flags: nothing resets them.
SolveAgain ==
    /\ phase = "done"
    /\ calls >= 1
    /\ calls < MaxSolves
    /\ before' = [set |-> TRUE, outcome |-> outcome, moves |-> moves]
    /\ outcome' = "none"
    /\ EnterSolve("user")
    /\ UNCHANGED <<args, cells, cur, pending, moves, rng, fault, incoming,
                   resets, run, first>>

\* A caller constructs a second Maze with the same arguments; the random
\* source is the module-level one and keeps its state.
ConstructAgain ==
    /\ phase = "done"
    /\ run < MaxRuns
    /\ first' = [set |-> TRUE,
                 cells |-> cells,
                 moves |-> moves]
    /\ run' = run + 1
    /\ cells' = << >>
    /\ phase' = "create"
    /\ frames' = << >>
    /\ stack' = << >>
    /\ cur' = <<0, 0>>
    /\ pending' = << >>
    /\ lpc' = "pop"
    /\ ret' = "none"
    /\ outcome' = "none"
    /\ moves' = {}
    /\ incoming' = << >>
    /\ resets' = 0
    /\ caller' = "init"
    /\ result' = "pending"
    /\ calls' = 0
    /\ before' = [set |-> FALSE, outcome |-> "none", moves |-> {}]
    /\ entered' = << >>
    /\ UNCHANGED <<args, rng, fault>>

Next ==
    \/ CreateCells
    \/ BreakEntranceAndExit
    \/ BreakWallsR_Carve
    \/ BreakWallsR_Return
    \/ BreakWallsL_Pop
    \/ BreakWallsL_Carve
    \/ BreakWallsL_Done
    \/ ResetCellsVisited
    \/ SolveR_Enter
    \/ SolveR_Try
    \/ SolveR_Back
    \/ SolveR_Fail
    \/ SolveL_Pop
    \/ SolveL_Try
    \/ SeedAndFinish

Spec == Init /\ [][Next]_vars

\* Two constructions in a row, as a caller comparing two mazes makes them.
NextTwice == Next \/ ConstructAgain

SpecTwice == Init /\ [][NextTwice]_vars

\* Maze.__init__ is straight-line, single-threaded code: a step that can be
\* taken is taken.
FairSpec == Spec /\ WF_vars(Next)

\* A construction followed by further solve() calls of the user.
NextResolve == Next \/ SolveAgain

SpecResolve == Init /\ [][NextResolve]_vars

-----------------------------------------------------------------------------
\* solve() on walls of the caller's choice: the grid is wall-consistent, its
\* outer walls are closed apart from entrance and exit, no cell is visited.
\* valid_dirs is what the strategy's own carver leaves for such walls: "True"
\* along every passage under __break_walls_l, nothing under __break_walls_r.

\* The inner walls, each named by its left or upper cell and the direction.
InnerWalls ==
    {p \in Idx \X {"right", "down"} : Toward(p[1], p[2]) \in Idx}

\* The cell at c when exactly the inner walls in `open` are cleared.
GivenCell(c, open) ==
    LET gap == [d \in Dirs |->
                   CASE d = "right" -> <<c, "right">> \in open
                     [] d = "down"  -> <<c, "down">> \in open
                     [] d = "left"  -> <<Toward(c, "left"), "right">> \in open
                     [] d = "up"    -> <<Toward(c, "up"), "down">> \in open]
    IN  [has_left_wall |-> ~gap["left"],
         has_right_wall |-> ~gap["right"],
         has_top_wall |-> ~(gap["up"] \/ c = <<0, 0>>),
         has_bottom_wall |-> ~(gap["down"] \/ c = Last),
         visited |-> FALSE,
         valid_dirs |-> [d \in Dirs |->
                            IF large /\ gap[d] THEN "True" ELSE "unset"]]

InitGiven ==
    /\ num_cols \in 1 .. GivenCols
    /\ num_rows \in 1 .. GivenRows
    /\ large \in BOOLEAN
    /\ win \in BOOLEAN
    /\ seed = NoSeed
    /\ \E open \in SUBSET InnerWalls :
           cells = [c \in Idx |-> GivenCell(c, open)]
    /\ phase = "solve"
    /\ frames = IF large THEN << >> ELSE << Frame(<<0, 0>>, "enter") >>
    /\ stack = IF large THEN << <<0, 0>> >> ELSE << >>
    /\ cur = <<0, 0>>
    /\ pending = << >>
    /\ lpc = "pop"
    /\ ret = "none"
    /\ outcome = "none"
    /\ moves = {}
    /\ rng = [seeded |-> FALSE, seed |-> NoSeed, pos |-> 0]
    /\ fault = "none"
    /\ incoming = [c \in Idx |-> 0]
    /\ resets = 0
    /\ run = 1
    /\ first = [set |-> FALSE, cells |-> << >>, moves |-> {}]
    /\ caller = "user"
    /\ result = "pending"
    /\ calls = 1
    /\ before = [set |-> FALSE, outcome |-> "none", moves |-> {}]
    /\ entered = [c \in Idx |-> IF large /\ c = <<0, 0>> THEN 1 ELSE 0]

NextGiven ==
    \/ SolveR_Enter
    \/ SolveR_Try
    \/ SolveR_Back
    \/ SolveR_Fail
    \/ SolveL_Pop
    \/ SolveL_Try

SpecGiven == InitGiven /\ [][NextGiven]_vars

-----------------------------------------------------------------------------
\* Vocabulary of the properties

\* a and its neighbour towards d are both in the grid and the wall pair
\* between them is cleared on both sides.
Open(cs, a, d) ==
    /\ Toward(a, d) \in DOMAIN cs
    /\ ~HasWall(cs, a, d)
    /\ ~HasWall(cs, Toward(a, d), Opposite(d))

\* The passages, each named by its left or upper cell and the direction.
PassageSet(cs) ==
    {p \in (DOMAIN cs) \X {"right", "down"} : Open(cs, p[1], p[2])}

RECURSIVE ReachFrom(_, _)
ReachFrom(cs, S) ==
    LET N == S \cup {b \in DOMAIN cs :
                        \E d \in Dirs : Toward(b, d) \in S /\ Open(cs, b, d)}
    IN  IF N = S THEN S ELSE ReachFrom(cs, N)

\* The number of connected components of the passage graph among `rest`,
\* a union of whole components.
RECURSIVE Components(_, _)
Components(cs, rest) ==
    IF rest = {} THEN 0
    ELSE LET c == CHOOSE c \in rest : TRUE
         IN  1 + Components(cs, rest \ ReachFrom(cs, {c}))

\* A graph is a forest iff edges + components = nodes.
Acyclic(cs) ==
    Cardinality(PassageSet(cs)) + Components(cs, DOMAIN cs)
        = Cardinality(DOMAIN cs)

Walls(cs) ==
    [c \in DOMAIN cs |->
        <<cs[c].has_left_wall, cs[c].has_right_wall,
          cs[c].has_top_wall, cs[c].has_bottom_wall>>]

\* The grid has at least one row and one column.
Positive == num_rows >= 1 /\ num_cols >= 1

\* Carving has returned (the reset is about to run or has run).
GenerationComplete == Positive /\ (phase = "reset" \/ resets >= 1)

\* solve() has returned.
SolveEnded == outcome # "none"

\* ms is exactly the set of steps of one simple path from c to the exit,
\* each step through an open passage.
RECURSIVE PathTo(_, _)
PathTo(c, ms) ==
    IF c = Last THEN ms = {}
    ELSE LET out == {m \in ms : m[1] = c}
         IN  /\ Cardinality(out) = 1
             /\ LET m == CHOOSE m \in out : TRUE
                IN  /\ \E d \in Dirs : m[2] = Toward(c, d) /\ Open(cells, c, d)
                    /\ PathTo(m[2], ms \ {m})

\* The solve has been entered and has not taken a step yet.
SolveAtFirstStep ==
    /\ phase = "solve"
    /\ moves = {}
    /\ IF large
       THEN lpc = "pop" /\ stack = << <<0, 0>> >>
       ELSE Len(frames) = 1 /\ Top.pc = "enter"

-----------------------------------------------------------------------------
\* C1: once generation is complete on a grid with at least one row and one
\* column, under either carving strategy, exactly num_rows * num_cols - 1
\* passages exist and every cell is reachable from (0,0) through passages.
C1_SpanningTree ==
    GenerationComplete =>
        /\ Cardinality(PassageSet(cells)) = num_rows * num_cols - 1
        /\ ReachFrom(cells, {<<0, 0>>}) = DOMAIN cells

C1_Witness ==
    /\ GenerationComplete
    /\ ~large
    /\ num_cols >= 3
    /\ num_rows >= 3
    /\ phase = "reset"

\* The state part of C2: no cycle, (0,0) never carved into, every other cell
\* at most once, and exactly once from the moment it is visited.
C2_NoCycleInv ==
    phase # "create" =>
        /\ Acyclic(cells)
        /\ \A c \in DOMAIN cells :
               /\ incoming[c] <= 1
               /\ (c = <<0, 0>> => incoming[c] = 0)
               /\ (phase = "carve" /\ c # <<0, 0>> =>
                       (incoming[c] = 1 <=> cells[c].visited))
               /\ (GenerationComplete /\ c # <<0, 0>> => incoming[c] = 1)

\* The step part of C2: a carve goes into a cell unvisited before the step.
C2_CarveIntoUnvisited ==
    \A c \in (DOMAIN incoming) \cap (DOMAIN incoming') :
        incoming'[c] > incoming[c] => ~cells[c].visited

\* C2: in every state, also in the middle of carving, the passage graph has
\* no cycle; a carve only ever goes into a cell that is unvisited at that
\* moment, so (0,0) is never carved into and every other cell exactly once,
\* by the cell that discovered it.
C2_NoCycle == []C2_NoCycleInv /\ [][C2_CarveIntoUnvisited]_vars

C2_Witness ==
    /\ phase = "carve"
    /\ large
    /\ Cardinality(PassageSet(cells)) >= 4
    /\ pending # << >>

\* C3: in every state the two sides of every inner wall agree: a cell's
\* right wall equals its right neighbour's left wall, and a cell's bottom
\* wall equals its lower neighbour's top wall.
C3_WallConsistency ==
    \A c \in DOMAIN cells :
        /\ (Toward(c, "right") \in DOMAIN cells =>
                cells[c].has_right_wall = cells[Toward(c, "right")].has_left_wall)
        /\ (Toward(c, "down") \in DOMAIN cells =>
                cells[c].has_bottom_wall = cells[Toward(c, "down")].has_top_wall)

C3_Witness ==
    /\ phase = "solve"
    /\ moves # {}
    /\ \E c \in DOMAIN cells :
           /\ Open(cells, c, "right")
           /\ \E e \in DOMAIN cells : Open(cells, e, "down")

\* C4: two constructions with the same integer seed and the same dimensions
\* end with the same walls and the same solve path.  Stated for the seeds
\* random.seed is called with at all (seed 0 is falsy and never seeds, so
\* with it the two constructions differ all the more).
C4_Determinism ==
    (first.set /\ phase = "done" /\ seed # NoSeed /\ seed # 0) =>
        /\ Walls(cells) = Walls(first.cells)
        /\ moves = first.moves

\* C5: with a window present, on every grid with at least one row and one
\* column, the construction goes on until the solve has stopped at the exit
\* cell; the solve never runs out of branches.
C5_SolveReachesExit ==
    (Positive /\ win) =>
        /\ <>(phase = "done" /\ outcome = "exit")
        /\ [](outcome # "exhausted" /\ fault = "none")

C5_Witness ==
    /\ phase = "done"
    /\ outcome = "exit"
    /\ win
    /\ num_cols >= 3
    /\ num_rows >= 3

\* C6: when the solve has ended, under either strategy, the moves drawn and
\* not painted over are exactly the steps of one simple path from (0,0) to
\* the exit through open passages.
C6_MovesAreThePath ==
    (SolveEnded /\ win) => PathTo(<<0, 0>>, moves)

\* C7: without a window, on a grid with at least one row and one column,
\* the construction raises nothing.
C7_NoWindowNoFault ==
    (~win /\ Positive) => fault = "none"

\* C8: with num_rows <= 0 or num_cols <= 0 the construction carves nothing,
\* opens nothing, solves nothing and raises nothing; no cell exists once the
\* cells are created.
C8_Degenerate ==
    ~Positive =>
        /\ fault = "none"
        /\ phase \in {"create", "seed", "done"}
        /\ DOMAIN cells = {}
        /\ resets = 0
        /\ outcome = "none"
        /\ moves = {}
        /\ frames = << >>
        /\ stack = << >>

C8_Witness ==
    /\ ~Positive
    /\ num_cols >= 2
    /\ phase = "done"

C10_ResetOnceBeforeSolve ==
    /\ resets <= 1
    /\ (SolveAtFirstStep => \A c \in DOMAIN cells : ~cells[c].visited)
    /\ (phase \in {"create", "entrance", "carve", "reset"} => resets = 0)
    /\ (phase = "solve" \/ SolveEnded \/ moves # {} => resets = 1)
    /\ (Positive /\ phase \in {"seed", "done"} => resets = 1)

C10_Witness ==
    /\ SolveAtFirstStep
    /\ num_cols >= 2
    /\ num_rows >= 2

\* C11: on a wall-consistent, closed grid, with a window present, solve()
\* raises nothing, and what it returns when the exit was not reached differs
\* from what it returns when the exit was reached.
C11_UnsolvableDistinct ==
    (SolveEnded /\ win) =>
        /\ fault = "none"
        /\ (result = SolveResult(IF large THEN "None" ELSE "True")
                <=> outcome = "exit")

\* C12: on the 1x1 grid no passage is ever carved and no move ever drawn,
\* the left and right walls of (0,0) stay, generation leaves its top and
\* bottom walls cleared, and the solve ends at the exit in its first step,
\* having entered (0,0) and no other cell.
C12_OneByOne ==
    (num_cols = 1 /\ num_rows = 1) =>
        /\ moves = {}
        /\ PassageSet(cells) = {}
        /\ (phase # "create" =>
                /\ cells[<<0, 0>>].has_left_wall
                /\ cells[<<0, 0>>].has_right_wall)
        /\ (GenerationComplete =>
                /\ ~cells[<<0, 0>>].has_top_wall
                /\ ~cells[<<0, 0>>].has_bottom_wall)
        /\ (phase = "solve" =>
                IF large THEN lpc = "pop" /\ stack = << <<0, 0>> >>
                ELSE frames = << Frame(<<0, 0>>, "enter") >>)
        /\ (win /\ phase \in {"seed", "done"} =>
                /\ outcome = "exit"
                /\ entered[<<0, 0>>] = 1)
        /\ (win => fault = "none")

C12_Witness ==
    /\ num_cols = 1
    /\ num_rows = 1
    /\ ~large
    /\ phase = "done"
    /\ outcome = "exit"

\* C13: during carving and when it has finished, under either strategy, for
\* every cell and every direction towards a neighbour in the grid, the
\* valid_dirs marker is true exactly when the wall in that direction is gone.
C13_MarkersMatchWalls ==
    phase \in {"carve", "reset"} =>
        \A c \in DOMAIN cells : \A d \in Dirs :
            Toward(c, d) \in DOMAIN cells =>
                (cells[c].valid_dirs[d] = "True" <=> ~HasWall(cells, c, d))

Range(q) == {q[k] : k \in 1 .. Len(q)}

\* The neighbours of c in the grid that are not visited.
UnvisitedNeighbours(c) ==
    {n \in DOMAIN cells :
        (\E d \in Dirs : n = Toward(c, d)) /\ ~cells[n].visited}

\* C14: at every carving step, under either strategy, the candidates of the
\* current cell are all its unvisited neighbours in the grid, those in column
\* 0 and row 0 included.
C14_CandidatesAreAllUnvisited ==
    phase = "carve" =>
        IF large
        THEN cells[cur].visited => Range(pending) = UnvisitedNeighbours(cur)
        ELSE frames # << >> =>
                Range(NeedToVisit(cells, Top.cell[1], Top.cell[2]))
                    = UnvisitedNeighbours(Top.cell)

\* The direction from c to its neighbour n.
DirOf(c, n) == CHOOSE d \in Dirs : Toward(c, d) = n

\* The directions tried before d.
Earlier(d) ==
    CASE d = "left"  -> {}
      [] d = "right" -> {"left"}
      [] d = "up"    -> {"left", "right"}
      [] d = "down"  -> {"left", "right", "up"}

\* n is stacked and its search has not begun.
Awaiting(n) == \E k \in 1 .. Len(stack) : stack[k] = n

\* A step that moves into a neighbour finds every open neighbour in an
\* earlier direction visited and not waiting for its search.
C15_Step ==
    \A m \in moves' \ moves :
        \A d \in Earlier(DirOf(m[1], m[2])) :
            Open(cells, m[1], d) =>
                /\ cells[Toward(m[1], d)].visited
                /\ ~Awaiting(Toward(m[1], d))

\* C15: under either solving strategy the open neighbours of a cell are
\* searched in the order left, right, up, down: a neighbour is moved into
\* only when the search of every earlier open neighbour is over.
C15_FixedOrder == [][C15_Step]_vars

Markers(cs) == [c \in DOMAIN cs |-> cs[c].valid_dirs]

\* A step that draws or paints over a move changes no wall and no marker.
\* (The visited flag _solve_l sets in the same step is set by line 332, not
\* by the drawing call.)
C16_Step ==
    moves' # moves =>
        /\ Walls(cells') = Walls(cells)
        /\ Markers(cells') = Markers(cells)

\* C16: the rendering calls change no wall flag and no direction-validity
\* marker of any cell.
C16_RenderingReadOnly == [][C16_Step]_vars

\* C17: during one solve, under either strategy, no cell is entered twice, no
\* move is drawn into (0,0), and (0,0) is visited when its neighbours are
\* examined.
C17_EnteredOnce ==
    /\ \A c \in DOMAIN entered : entered[c] <= 1
    /\ \A m \in moves : m[2] # <<0, 0>>
    /\ (phase = "solve" /\ large /\ lpc \in Dirs /\ cur = <<0, 0>> =>
            cells[<<0, 0>>].visited)
    /\ (phase = "solve" /\ ~large /\ frames # << >> =>
            (Top.cell = <<0, 0>> /\ Top.pc \in Dirs => cells[<<0, 0>>].visited))

\* C18: in every state every outer wall is present, except possibly the top
\* wall of (0,0) and the bottom wall of the last cell; no solver reads a cell
\* outside the grid: whenever _solve_r's guard lets it look past a missing
\* wall, the neighbour is in the grid.
C18_BoundaryClosed ==
    /\ \A c \in DOMAIN cells :
           /\ (c[1] = 0 => cells[c].has_left_wall)
           /\ (c[1] = num_cols - 1 => cells[c].has_right_wall)
           /\ (c[2] = 0 /\ c # <<0, 0>> => cells[c].has_top_wall)
           /\ (c[2] = num_rows - 1 /\ c # Last => cells[c].has_bottom_wall)
    /\ fault # "IndexError"
    /\ (phase = "solve" /\ ~large /\ frames # << >> =>
            (Top.pc \in Dirs /\ BoundR(Top.cell, Top.pc)
                /\ ~HasWall(cells, Top.cell, Top.pc) =>
                    Toward(Top.cell, Top.pc) \in DOMAIN cells))

C18_Witness ==
    /\ phase = "solve"
    /\ ~large
    /\ num_cols >= 2
    /\ num_rows >= 2
    /\ frames # << >>
    /\ Top.cell[1] = num_cols - 1
    /\ Top.cell[2] = num_rows - 2
    /\ Top.pc = "right"

\* C19: on a maze with more than one cell, with a window present, a second
\* solve() ends as the first did, at the exit, and leaves the same moves.
C19_SecondSolveSame ==
    (before.set /\ SolveEnded /\ win /\ Cardinality(DOMAIN cells) > 1) =>
        /\ outcome = "exit"
        /\ outcome = before.outcome
        /\ moves = before.moves

====
